---- MODULE Spec2Model ----
(***************************************************************************)
(* LRUCache of src/Ex2_LRU_Cache.py: a dict from key to node plus a        *)
(* doubly linked list of nodes between two dummy nodes.  The heap of       *)
(* ListNode objects is modelled explicitly: every node has an identity     *)
(* and the four fields key, val, prev, next.                               *)
(***************************************************************************)
EXTENDS Integers, Sequences, FiniteSets, TLC

\* ---------------------------------------------------------------- bounds
MinCap == 0 - 1
MaxCap == 3
NumKeys == 4
MaxNodes == 5
MaxInt == 2

Keys == 1..NumKeys
\* values offered to put for key k: -1 (what get returns on a miss) and k itself
ValuesFor(k) == {0 - 1, k}
Capacities == MinCap..MaxCap

\* ------------------------------------------------------------- the heap
None == 0 - 1          \* Python None in a prev/next field
head == 0              \* identity of self.head
tail == 1              \* identity of self.tail
NotFound == 0 - 1      \* what get returns for an absent key

VARIABLES capacity, dict, heap, ret, raised, op, evicted, mid, lastTouch, written, pc,
          alt1, alt2,
          nestedList, stack, output, answer, lastCall, halted, pushed, popped,
          thrown, protocol

vars == <<capacity, dict, heap, ret, raised, op, evicted, mid, lastTouch, written, pc,
          alt1, alt2,
          nestedList, stack, output, answer, lastCall, halted, pushed, popped,
          thrown, protocol>>

ListNode(key, val) == [key |-> key, val |-> val, prev |-> None, next |-> None]

\* a fresh object never shares its identity with an object still referenced
Alloc(h) ==
  CHOOSE n \in 2..(Cardinality(DOMAIN h) + 2) :
     n \notin DOMAIN h /\ \A m \in 2..(n - 1) : m \in DOMAIN h

\* the constructor called with its arguments swapped: ListNode(value, key)
NewSwapped(h, n, key, val) == [x \in DOMAIN h \cup {n} |-> IF x = n THEN ListNode(val, key) ELSE h[x]]

\* the heap with a new object n = ListNode(key, val)
New(h, n, key, val) == [x \in DOMAIN h \cup {n} |-> IF x = n THEN ListNode(key, val) ELSE h[x]]

\* _add with the two ends confused: links node right before the dummy tail
AddNodeAtTail(h, node) ==
  LET h1 == [h  EXCEPT ![node].prev = h[tail].prev]
      h2 == [h1 EXCEPT ![node].next = tail]
      h3 == [h2 EXCEPT ![h2[tail].prev].next = node]
  IN  [h3 EXCEPT ![tail].prev = node]

\* _add that forgets head.next.prev = node
AddNodeNoBackLink(h, node) ==
  LET h1 == [h  EXCEPT ![node].next = h[head].next]
      h2 == [h1 EXCEPT ![node].prev = head]
  IN  [h2 EXCEPT ![head].next = node]

\* _add dereferences head.next in its third statement: None there raises,
\* after the first two statements have set node.next and node.prev
AddRaises(h) == h[head].next = None

AddLeaves(h, node) ==
  LET h1 == [h EXCEPT ![node].next = h[head].next]
  IN  [h1 EXCEPT ![node].prev = head]

\* _add: link node right after the dummy head, statement by statement
AddNode(h, node) ==
  LET h1 == [h  EXCEPT ![node].next = h[head].next]
      h2 == [h1 EXCEPT ![node].prev = head]
      h3 == [h2 EXCEPT ![h2[head].next].prev = node]
  IN  [h3 EXCEPT ![head].next = node]

\* _remove dereferences node, node.prev and node.next: None there raises
RemoveRaises(h, node) == node = None \/ h[node].prev = None \/ h[node].next = None

\* the heap a _remove that raises leaves behind: its first statement,
\* node.prev.next = node.next, has run unless it is the one that raised
RemoveLeaves(h, node) ==
  IF node = None \/ h[node].prev = None
    THEN h
    ELSE [h EXCEPT ![h[node].prev].next = h[node].next]

\* _remove that forgets to rewrite the neighbours
RemoveNodeNot(h, node) == h

\* _remove that rewrites only the predecessor's next
RemoveNodeHalf(h, node) == [h EXCEPT ![h[node].prev].next = h[node].next]

\* _remove: unlink node using its own prev/next
RemoveNode(h, node) ==
  LET h1 == [h EXCEPT ![h[node].prev].next = h[node].next]
  IN  [h1 EXCEPT ![h1[node].next].prev = h1[node].prev]

\* objects still referenced from the cache: the two dummies, the dict's
\* values, and whatever those reach through prev/next
RECURSIVE Reach(_, _)
Reach(h, S) ==
  LET T == S \cup {h[n].prev : n \in S} \cup {h[n].next : n \in S}
      U == T \cap DOMAIN h
  IN  IF U = S THEN S ELSE Reach(h, U)

Range(f) == {f[x] : x \in DOMAIN f}

\* reference counting frees every node nothing refers to any more
Collect(h, d) == [n \in Reach(h, {head, tail} \cup Range(d)) |-> h[n]]

\* dict with d[k] = n
DictSet(d, k, n) == [x \in DOMAIN d \cup {k} |-> IF x = k THEN n ELSE d[x]]
\* a del that is left out
DictDelNot(d, k) == d

\* del d[k]
DictDel(d, k) == [x \in DOMAIN d \ {k} |-> d[x]]

\* ------------------------------------------------------- what is observed
\* the nodes met following next from the dummy head up to the dummy tail
RECURSIVE WalkNext(_, _, _)
WalkNext(h, n, fuel) ==
  IF n = tail \/ n = None \/ fuel = 0 THEN <<>>
  ELSE <<n>> \o WalkNext(h, h[n].next, fuel - 1)

\* the nodes met following prev from the dummy tail back to the dummy head
RECURSIVE WalkPrev(_, _, _)
WalkPrev(h, n, fuel) ==
  IF n = head \/ n = None \/ fuel = 0 THEN <<>>
  ELSE <<n>> \o WalkPrev(h, h[n].prev, fuel - 1)

LinkedBack == WalkPrev(heap, heap[tail].prev, Cardinality(DOMAIN heap))

Linked == WalkNext(heap, heap[head].next, Cardinality(DOMAIN heap))

\* the keys of the linked nodes, head to tail: the recency order
Order == [i \in 1..Len(Linked) |-> heap[Linked[i]].key]

\* the key-to-value mapping the cache holds
Contents == [k \in DOMAIN dict |-> heap[dict[k]].val]

Size == Cardinality(DOMAIN dict)

\* ----------------------------------------------------------- operations
\* evicting from the wrong end: self.head.next
LruNodeFront(h) == h[head].next

\* evicting the node before the last one: self.tail.prev.prev
LruNodeSecond(h) == h[h[tail].prev].prev

\* the node put evicts: self.tail.prev
LruNode(h) == h[tail].prev

\* an overflow test that is off by one, late: len(self.dict) > self.capacity + 1
OverflowLate(d, cap) == Cardinality(DOMAIN d) > cap + 1

\* an overflow test that is off by one, early: len(self.dict) >= self.capacity
OverflowEarly(d, cap) == Cardinality(DOMAIN d) >= cap

\* put's overflow test: len(self.dict) > self.capacity
Overflow(d, cap) == Cardinality(DOMAIN d) > cap

\* get on an index that creates what it is asked for (a defaultdict): a miss
\* links a new node holding the not-found value
GetOutcomeDefault(d, h, key) ==
  IF key \notin DOMAIN d
    THEN LET node == Alloc(h) IN
         [dict |-> DictSet(d, key, node),
          heap |-> AddNode(New(h, node, key, NotFound), node),
          ret |-> <<NotFound>>, raised |-> FALSE]
    ELSE LET node == d[key] IN
         [dict |-> d, heap |-> AddNode(RemoveNode(h, node), node),
          ret |-> <<h[node].val>>, raised |-> FALSE]

\* get that returns the value without relocating the node
GetOutcomeNoMove(d, h, key) ==
  IF key \notin DOMAIN d
    THEN [dict |-> d, heap |-> h, ret |-> <<NotFound>>, raised |-> FALSE]
    ELSE [dict |-> d, heap |-> h, ret |-> <<h[d[key]].val>>, raised |-> FALSE]

\* get(key): outcome as a record of the new dict, heap, result and whether
\* an exception left the method early
GetOutcome(d, h, key) ==
  IF key \notin DOMAIN d
    THEN [dict |-> d, heap |-> h, ret |-> <<NotFound>>, raised |-> FALSE]
    ELSE LET node == d[key] IN
         IF RemoveRaises(h, node)
           THEN [dict |-> d, heap |-> RemoveLeaves(h, node), ret |-> <<>>, raised |-> TRUE]
         ELSE IF AddRaises(RemoveNode(h, node))
           THEN [dict |-> d, heap |-> AddLeaves(RemoveNode(h, node), node),
                 ret |-> <<>>, raised |-> TRUE]
           ELSE [dict |-> d, heap |-> AddNode(RemoveNode(h, node), node),
                 ret |-> <<h[node].val>>, raised |-> FALSE]

\* what put goes through between its first and its last statement: the size
\* of the dict on entry, its size at the overflow test, whether the overflow
\* branch ran, and about the node that branch unlinks: how many nodes were
\* linked between the dummies, whether it is a node the dict maps a key to
\* (not a dummy), and whether its key is in the dict
NoMid ==
  [before |-> 0, peak |-> 0, evicting |-> FALSE, linked |-> 0,
   lruLive |-> FALSE, keyKnown |-> FALSE]

Mid(d, d1, h2, lru, over) ==
  [before |-> Cardinality(DOMAIN d), peak |-> Cardinality(DOMAIN d1),
   evicting |-> over,
   linked |-> IF over THEN Len(WalkNext(h2, h2[head].next, Cardinality(DOMAIN h2))) ELSE 0,
   lruLive |-> over /\ lru \notin {head, tail, None} /\ lru \in Range(d1),
   keyKnown |-> over /\ lru \in DOMAIN h2 /\ h2[lru].key \in DOMAIN d1]

\* put written the way the list alternative is: make room first, when the
\* dict already holds capacity keys or more, then insert
PutOutcomeEvictFirst(cap, d, h, key, value) ==
  LET hit  == key \in DOMAIN d
      over == ~hit /\ Cardinality(DOMAIN d) >= cap
      lru  == LruNode(h)
      bad  == over /\ (RemoveRaises(h, lru) \/ h[lru].key \notin DOMAIN d)
      h0   == IF hit THEN RemoveNode(h, d[key])
              ELSE IF over /\ ~bad THEN RemoveNode(h, lru) ELSE h
      d0   == IF over /\ ~bad THEN DictDel(d, h[lru].key) ELSE d
      node == Alloc(h0)
  IN  IF bad
        THEN [dict |-> d, heap |-> h, evicted |-> {}, raised |-> TRUE,
              mid |-> Mid(d, d, h, lru, TRUE)]
        ELSE [dict |-> DictSet(d0, key, node),
              heap |-> AddNode(New(h0, node, key, value), node),
              evicted |-> IF over THEN {h[lru].key} ELSE {}, raised |-> FALSE,
              mid |-> Mid(d, d, h, lru, over)]

\* put(key, value): outcome as a record of the new dict and heap, the keys
\* deleted from the dict by the overflow branch, whether it raised, and
\* what it went through on the way
PutOutcome(cap, d, h, key, value) ==
  LET hit  == key \in DOMAIN d
      h0   == IF hit THEN RemoveNode(h, d[key]) ELSE h
      node == Alloc(h0)
      d1   == DictSet(d, key, node)
      h2   == AddNode(New(h0, node, key, value), node)
      lru  == LruNode(h2)
      h3   == RemoveNode(h2, lru)
      m    == Mid(d, d1, h2, lru, Overflow(d1, cap))
  IN  IF hit /\ RemoveRaises(h, d[key])
        THEN [dict |-> d, heap |-> RemoveLeaves(h, d[key]), evicted |-> {},
              raised |-> TRUE, mid |-> NoMid]
      ELSE IF AddRaises(h0)
        THEN [dict |-> d1, heap |-> AddLeaves(New(h0, node, key, value), node),
              evicted |-> {}, raised |-> TRUE, mid |-> NoMid]
      ELSE IF ~Overflow(d1, cap)
        THEN [dict |-> d1, heap |-> h2, evicted |-> {}, raised |-> FALSE, mid |-> m]
      ELSE IF RemoveRaises(h2, lru)
        THEN [dict |-> d1, heap |-> RemoveLeaves(h2, lru), evicted |-> {},
              raised |-> TRUE, mid |-> m]
      ELSE IF h3[lru].key \notin DOMAIN d1
        THEN [dict |-> d1, heap |-> h3, evicted |-> {}, raised |-> TRUE, mid |-> m]
      ELSE [dict |-> DictDel(d1, h3[lru].key), heap |-> h3,
            evicted |-> {h3[lru].key}, raised |-> FALSE, mid |-> m]

\* ------------------------------------------- the two alternatives in the file
\* Both keep their entries oldest first, as a sequence of <<key, value>>.
Find(c, key) == {i \in 1..Len(c) : c[i][1] = key}
Index(c, key) == CHOOSE i \in Find(c, key) : \A j \in Find(c, key) : i <= j
Pop(c, i) == SubSeq(c, 1, i - 1) \o SubSeq(c, i + 1, Len(c))

\* Alternative 1 (OrderedDict).  get: move_to_end(key), return cache[key]
OdGet(a, key) ==
  IF Find(a.cache, key) = {}
    THEN [cache |-> a.cache, ret |-> <<NotFound>>]
    ELSE LET i == Index(a.cache, key) IN
         [cache |-> Append(Pop(a.cache, i), a.cache[i]), ret |-> <<a.cache[i][2]>>]

\* put: move_to_end(key) when present, cache[key] = value, then
\* popitem(last=False) when len(cache) > capacity
OdPut(cap, a, key, value) ==
  LET c0 == IF Find(a.cache, key) = {} THEN a.cache
            ELSE Pop(a.cache, Index(a.cache, key))
      c1 == Append(c0, <<key, value>>)
  IN  [cache |-> IF Len(c1) > cap THEN Tail(c1) ELSE c1, ret |-> <<>>]

\* Alternative 2 (list of [key, value] pairs).  get: linear scan, pop(i),
\* append, return tmp[1]
BfGet(a, key) ==
  IF Find(a.cache, key) = {}
    THEN [cache |-> a.cache, ret |-> <<NotFound>>, raised |-> FALSE]
    ELSE LET i == Index(a.cache, key) IN
         [cache |-> Append(Pop(a.cache, i), a.cache[i]),
          ret |-> <<a.cache[i][2]>>, raised |-> FALSE]

\* put: linear scan, on a hit pop(i), tmp[1] = value, append, return; else
\* pop(0) when len(cache) == capacity (IndexError on an empty list), append
BfPut(cap, a, key, value) ==
  IF Find(a.cache, key) # {}
    THEN [cache |-> Append(Pop(a.cache, Index(a.cache, key)), <<key, value>>),
          ret |-> <<>>, raised |-> FALSE]
  ELSE IF Len(a.cache) = cap /\ a.cache = <<>>
    THEN [cache |-> a.cache, ret |-> <<>>, raised |-> TRUE]
  ELSE [cache |-> Append(IF Len(a.cache) = cap THEN Tail(a.cache) ELSE a.cache,
                         <<key, value>>),
        ret |-> <<>>, raised |-> FALSE]

\* the calls of the __main__ harness, in order, on LRUCache(2)
Script ==
  << [kind |-> "put", key |-> 1, args |-> <<1>>],
     [kind |-> "put", key |-> 2, args |-> <<2>>],
     [kind |-> "get", key |-> 1, args |-> <<>>],
     [kind |-> "put", key |-> 3, args |-> <<3>>],
     [kind |-> "get", key |-> 2, args |-> <<>>],
     [kind |-> "put", key |-> 4, args |-> <<4>>],
     [kind |-> "get", key |-> 1, args |-> <<>>],
     [kind |-> "get", key |-> 3, args |-> <<>>],
     [kind |-> "get", key |-> 4, args |-> <<>>] >>

ScriptCapacity == 2
Off == 0 - 1

\* position in the harness: how many of its calls the run so far consists of
Advance(p, cap, call) ==
  IF p # Off /\ p < Len(Script) /\ cap = ScriptCapacity /\ Script[p + 1] = call
    THEN p + 1 ELSE Off

\* lastTouch orders the keys of the dict by the time of their most recent
\* touch: the key touched now gets a stamp above every other, keys no longer
\* in the dict are forgotten, and the stamps are renumbered 1..n in the same
\* order, so that only the order of the touches is kept, not the wall clock
Touch(lt, d, key) ==
  LET now     == Cardinality(DOMAIN lt) + 1
      stamped == [k \in DOMAIN d |-> IF k = key THEN now ELSE lt[k]]
  IN  [k \in DOMAIN d |-> Cardinality({j \in DOMAIN d : stamped[j] <= stamped[k]})]

\* written remembers, for the keys of the dict, the value of the latest put
Written(w, d, key, value) ==
  [k \in DOMAIN d |-> IF k = key THEN value ELSE w[k]]

\* ===================================== src/Ex1_Flatten_Nested_List_Iterator.py
\* A NestedInteger is an integer or a list of NestedIntegers; getInteger of
\* one that holds a list is None.
IntItem(n) == [isInteger |-> TRUE, getInteger |-> n, getList |-> <<>>]
ListItem(l) == [isInteger |-> FALSE, getInteger |-> None, getList |-> l]

Reversed(q) == [i \in 1..Len(q) |-> q[Len(q) + 1 - i]]

\* the nested lists made of exactly n NestedIntegers, and the
\* NestedIntegers made of exactly n of them (itself included)
RECURSIVE ListsOfSize(_), ItemsOfSize(_)
ListsOfSize(n) ==
  IF n = 0 THEN {<<>>}
  ELSE UNION {{<<x>> \o l : x \in ItemsOfSize(m), l \in ListsOfSize(n - m)} : m \in 1..n}
ItemsOfSize(n) ==
  (IF n = 1 THEN {IntItem(i) : i \in 1..MaxInt} ELSE {})
     \cup {ListItem(l) : l \in ListsOfSize(n - 1)}

NestedLists == UNION {ListsOfSize(n) : n \in 0..MaxNodes}

\* the number of NestedIntegers in a nested list, at every depth
RECURSIVE Nodes(_)
Nodes(l) ==
  IF l = <<>> THEN 0
  ELSE 1 + (IF l[1].isInteger THEN 0 ELSE Nodes(l[1].getList)) + Nodes(Tail(l))

\* _flatten of the brute-force alternative: depth first, left to right
RECURSIVE Flatten(_)
Flatten(l) ==
  IF l = <<>> THEN <<>>
  ELSE (IF l[1].isInteger THEN <<l[1].getInteger>> ELSE Flatten(l[1].getList))
         \o Flatten(Tail(l))

\* hasNext's loop that extends the stack with the list as it is, not reversed
RECURSIVE HasNextLoopNoReverse(_, _, _, _)
HasNextLoopNoReverse(st, pu, po, fuel) ==
  IF fuel = 0 THEN [stack |-> st, ret |-> FALSE, halted |-> FALSE, pushed |-> pu, popped |-> po]
  ELSE IF st = <<>>
    THEN [stack |-> st, ret |-> FALSE, halted |-> TRUE, pushed |-> pu, popped |-> po]
  ELSE LET top == st[Len(st)] IN
       IF top.isInteger
         THEN [stack |-> st, ret |-> TRUE, halted |-> TRUE, pushed |-> pu, popped |-> po]
         ELSE HasNextLoopNoReverse(SubSeq(st, 1, Len(st) - 1) \o top.getList,
                                   pu + Len(top.getList), po + 1, fuel - 1)

\* hasNext's loop that forgets self.stack.pop() before extending
RECURSIVE HasNextLoopNoPop(_, _, _, _)
HasNextLoopNoPop(st, pu, po, fuel) ==
  IF fuel = 0 THEN [stack |-> st, ret |-> FALSE, halted |-> FALSE, pushed |-> pu, popped |-> po]
  ELSE IF st = <<>>
    THEN [stack |-> st, ret |-> FALSE, halted |-> TRUE, pushed |-> pu, popped |-> po]
  ELSE LET top == st[Len(st)] IN
       IF top.isInteger
         THEN [stack |-> st, ret |-> TRUE, halted |-> TRUE, pushed |-> pu, popped |-> po]
         ELSE HasNextLoopNoPop(st \o Reversed(top.getList),
                               pu + Len(top.getList), po, fuel - 1)

\* hasNext: while the stack is not empty, return True on an integer top,
\* else pop the list and push its items reversed; False on an empty stack.
\* pu and po count the pushes and the pops; the loop is followed for at most
\* fuel iterations and halted tells whether it returned within them
RECURSIVE HasNextLoop(_, _, _, _)
HasNextLoop(st, pu, po, fuel) ==
  IF fuel = 0 THEN [stack |-> st, ret |-> FALSE, halted |-> FALSE, pushed |-> pu, popped |-> po]
  ELSE IF st = <<>>
    THEN [stack |-> st, ret |-> FALSE, halted |-> TRUE, pushed |-> pu, popped |-> po]
  ELSE LET top == st[Len(st)] IN
       IF top.isInteger
         THEN [stack |-> st, ret |-> TRUE, halted |-> TRUE, pushed |-> pu, popped |-> po]
         ELSE HasNextLoop(SubSeq(st, 1, Len(st) - 1) \o Reversed(top.getList),
                          pu + Len(top.getList), po + 1, fuel - 1)

\* iterations granted to one call of hasNext: one per NestedInteger of the
\* input, and the last test of the loop condition
Fuel(l) == Nodes(l) + 1

\* the iterator when none has been constructed
IterIdle ==
  /\ nestedList = <<>>
  /\ stack = <<>>
  /\ output = <<>>
  /\ answer = <<>>
  /\ lastCall = "none"
  /\ halted = TRUE
  /\ pushed = 0
  /\ popped = 0
  /\ thrown = FALSE
  /\ protocol = TRUE

iterVars == <<nestedList, stack, output, answer, lastCall, halted, pushed, popped,
              thrown, protocol>>

cacheVars == <<capacity, dict, heap, ret, raised, op, evicted, mid, lastTouch, written, pc,
               alt1, alt2>>

\* __init__(capacity): empty dict, the two dummies linked to each other
Init ==
  /\ capacity \in Capacities
  /\ dict = <<>>
  /\ heap = [n \in {head, tail} |->
               IF n = head THEN [key |-> 0 - 1, val |-> 0 - 1, prev |-> None, next |-> tail]
                           ELSE [key |-> 0 - 1, val |-> 0 - 1, prev |-> head, next |-> None]]
  /\ ret = <<>>
  /\ raised = FALSE
  /\ op = [kind |-> "init", key |-> 0, args |-> <<>>, hit |-> FALSE]
  /\ evicted = {}
  /\ mid = NoMid
  /\ lastTouch = <<>>
  /\ written = <<>>
  /\ pc = 0
  /\ alt1 = [cache |-> <<>>, ret |-> <<>>]
  /\ alt2 = [cache |-> <<>>, ret |-> <<>>, raised |-> FALSE]
  /\ IterIdle

Get(key) ==
  \E out \in {GetOutcome(dict, heap, key)} :
  /\ dict' = out.dict
  /\ heap' = Collect(out.heap, out.dict)
  /\ ret' = out.ret
  /\ raised' = out.raised
  /\ op' = [kind |-> "get", key |-> key, args |-> <<>>, hit |-> key \in DOMAIN dict]
  /\ evicted' = {}
  /\ mid' = NoMid
  /\ lastTouch' = IF key \in DOMAIN dict /\ ~out.raised
                    THEN Touch(lastTouch, out.dict, key)
                    ELSE lastTouch
  /\ written' = written
  /\ pc' = Advance(pc, capacity, [kind |-> "get", key |-> key, args |-> <<>>])
  /\ alt1' = OdGet(alt1, key)
  /\ alt2' = BfGet(alt2, key)
  /\ UNCHANGED iterVars
  /\ UNCHANGED capacity

Put(key, value) ==
  \E out \in {PutOutcome(capacity, dict, heap, key, value)} :
  /\ dict' = out.dict
  /\ heap' = Collect(out.heap, out.dict)
  /\ ret' = <<>>
  /\ raised' = out.raised
  /\ op' = [kind |-> "put", key |-> key, args |-> <<value>>, hit |-> key \in DOMAIN dict]
  /\ evicted' = out.evicted
  /\ mid' = out.mid
  /\ lastTouch' = IF out.raised /\ out.dict = dict THEN lastTouch
                  ELSE Touch(lastTouch, out.dict, key)
  /\ written' = IF out.raised /\ out.dict = dict THEN written
                ELSE Written(written, out.dict, key, value)
  /\ pc' = Advance(pc, capacity, [kind |-> "put", key |-> key, args |-> <<value>>])
  /\ alt1' = OdPut(capacity, alt1, key, value)
  /\ alt2' = BfPut(capacity, alt2, key, value)
  /\ UNCHANGED iterVars
  /\ UNCHANGED capacity

Next ==
  \/ \E k \in Keys : Get(k)
  \/ \E k \in Keys : \E v \in ValuesFor(k) : Put(k, v)

Spec == Init /\ [][Next]_vars

\* ------------------------------------------------------- the iterator's runs
\* NestedIterator.__init__(nestedList): the stack is the outer list reversed;
\* the cache of the other file is not in use
InitIter ==
  /\ capacity = ScriptCapacity
  /\ dict = <<>>
  /\ heap = [n \in {head, tail} |->
               IF n = head THEN [key |-> 0 - 1, val |-> 0 - 1, prev |-> None, next |-> tail]
                           ELSE [key |-> 0 - 1, val |-> 0 - 1, prev |-> head, next |-> None]]
  /\ ret = <<>>
  /\ raised = FALSE
  /\ op = [kind |-> "init", key |-> 0, args |-> <<>>, hit |-> FALSE]
  /\ evicted = {}
  /\ mid = NoMid
  /\ lastTouch = <<>>
  /\ written = <<>>
  /\ pc = 0
  /\ alt1 = [cache |-> <<>>, ret |-> <<>>]
  /\ alt2 = [cache |-> <<>>, ret |-> <<>>, raised |-> FALSE]
  /\ nestedList \in NestedLists
  /\ stack = Reversed(nestedList)
  /\ output = <<>>
  /\ answer = <<>>
  /\ lastCall = "init"
  /\ halted = TRUE
  /\ pushed = Len(nestedList)
  /\ popped = 0
  /\ thrown = FALSE
  /\ protocol = TRUE

\* hasNext(), at any time
HasNext ==
  \E r \in {HasNextLoop(stack, pushed, popped, Fuel(nestedList))} :
    /\ stack' = r.stack
    /\ answer' = <<r.ret>>
    /\ halted' = r.halted
    /\ pushed' = r.pushed
    /\ popped' = r.popped
    /\ lastCall' = "hasNext"
    /\ thrown' = FALSE
    /\ UNCHANGED <<nestedList, output, protocol>>
    /\ UNCHANGED cacheVars

\* next(), at any time: self.stack.pop().getInteger(). The pop raises
\* IndexError on an empty stack and changes nothing; otherwise the top is
\* popped whatever it is and its getInteger() returned (None for a list,
\* whose elements are then never visited). protocol records whether every
\* next so far was called as the loop "while hasNext(): next()" calls it:
\* right after a hasNext that returned True.
IterNext ==
  /\ IF stack = <<>>
       THEN /\ thrown' = TRUE
            /\ UNCHANGED <<stack, output, popped>>
       ELSE /\ thrown' = FALSE
            /\ output' = Append(output, stack[Len(stack)].getInteger)
            /\ stack' = SubSeq(stack, 1, Len(stack) - 1)
            /\ popped' = popped + 1
  /\ answer' = <<>>
  /\ lastCall' = "next"
  /\ protocol' = (protocol /\ answer = <<TRUE>>)
  /\ UNCHANGED <<nestedList, halted, pushed>>
  /\ UNCHANGED cacheVars

NextIter == HasNext \/ IterNext

SpecIter == InitIter /\ [][NextIter]_vars

TypeOK ==
  /\ capacity \in Capacities
  /\ DOMAIN dict \subseteq Keys

\* ======================================================== the properties
Live == DOMAIN dict
SeqSet(q) == {q[i] : i \in 1..Len(q)}
\* q without the element x
Without(q, x) == SelectSeq(q, LAMBDA y : y # x)

\* C1 (capacity bound): in a cache constructed with capacity c >= 1 the
\* number of keys in the dict is between 0 and c in every state, so in
\* particular after every put.
CapacityBound == capacity >= 1 => (Size >= 0 /\ Size <= capacity)

\* a put on a full cache has just evicted a key and left the cache full
CapacityBoundWitness ==
  capacity >= 1 /\ op.kind = "put" /\ evicted # {} /\ Size = capacity

\* C2 (consistency): the keys of the dict are exactly the keys of the nodes
\* linked between the two dummies, no key is on two linked nodes, and every
\* dict entry points to the linked node that carries its key.
Consistency ==
  /\ SeqSet(Order) = Live
  /\ Len(Order) = Cardinality(Live)
  /\ \A k \in Live : dict[k] \in SeqSet(Linked) /\ heap[dict[k]].key = k

\* two keys are held right after a put evicted a third
ConsistencyWitness ==
  op.kind = "put" /\ evicted # {} /\ Size = 2 /\ Len(Linked) = 2

\* C3 (LRU ordering): the keys read from the list head to tail are the live
\* keys sorted by the time of their most recent touch, latest first.
LruOrdering ==
  /\ SeqSet(Order) = DOMAIN lastTouch
  /\ Len(Order) = Cardinality(DOMAIN lastTouch)
  /\ \A i \in 1..Len(Order) : \A j \in 1..Len(Order) :
        i < j => lastTouch[Order[i]] > lastTouch[Order[j]]

\* a get hit has just brought a key to the front of a list of two
LruOrderingWitness ==
  op.kind = "get" /\ op.hit /\ Len(Order) = 2 /\ Order[1] = op.key
  /\ lastTouch[Order[1]] = 2 /\ lastTouch[Order[2]] = 1

\* C4 (eviction picks the least recently used entry): a put of an absent key
\* into a cache that holds capacity entries (capacity being positive, as
\* the data model has it) removes exactly the key at the tail of the list,
\* which is the live key touched longest ago, from the list and from the
\* dict; every other live key stays live and the new key is at the head.
EvictsLeastRecent ==
  [][ (op'.kind = "put" /\ ~op'.hit /\ capacity >= 1 /\ Size = capacity) =>
        /\ Len(Order) >= 1
        /\ LET victim == Order[Len(Order)] IN
           /\ victim \in Live
           /\ \A j \in Live : lastTouch[victim] <= lastTouch[j]
           /\ evicted' = {victim}
           /\ Live' = (Live \ {victim}) \cup {op'.key}
           /\ SeqSet(Order') = Live'
           /\ Len(Order') = Len(Order)
           /\ Order'[1] = op'.key ]_vars

\* a put of a new key into a full cache of capacity 2 has evicted a key
EvictsLeastRecentWitness ==
  /\ op.kind = "put" /\ ~op.hit /\ capacity = 2 /\ Size = 2
  /\ evicted # {} /\ Order[1] = op.key /\ op.key \notin evicted

\* C5 (get-miss purity): get of a key that is not in the dict returns the
\* not-found result and changes neither the dict, nor any node, nor the
\* size, the values or the recency order.
GetMissPure ==
  [][ (op'.kind = "get" /\ ~op'.hit) =>
        /\ ret' = <<NotFound>>
        /\ ~raised'
        /\ Size' = Size
        /\ Live' = Live
        /\ Contents' = Contents
        /\ Order' = Order
        /\ dict' = dict
        /\ heap' = heap ]_vars

\* a miss on a cache that holds two keys
GetMissPureWitness ==
  op.kind = "get" /\ ~op.hit /\ ret = <<NotFound>> /\ Size = 2 /\ op.key \notin Live

\* C6 (update-not-insert): put(k, v) on a key of the dict sets k's value to
\* v and moves k to the head of the list; no key is added or evicted and
\* the number of live entries, in the dict and in the list, stays the same.
UpdateNotInsert ==
  [][ (op'.kind = "put" /\ op'.hit) =>
        /\ ~raised'
        /\ Live' = Live
        /\ Size' = Size
        /\ evicted' = {}
        /\ Len(Order') = Len(Order)
        /\ Order'[1] = op'.key
        /\ Contents'[op'.key] = op'.args[1] ]_vars

\* a put on the least recently used key of a full cache of capacity 2
UpdateNotInsertWitness ==
  /\ op.kind = "put" /\ op.hit /\ capacity = 2 /\ Size = 2
  /\ Order[1] = op.key /\ Contents[op.key] = op.args[1] /\ lastTouch[op.key] = 2

\* C7 (get hit): get(k) on a key of the dict returns the value most recently
\* put for k and moves k to the head of the list, the other keys keeping
\* their relative order; size, dict keys and all values stay the same.
GetHit ==
  [][ (op'.kind = "get" /\ op'.hit) =>
        /\ ~raised'
        /\ ret' = <<written[op'.key]>>
        /\ Order' = <<op'.key>> \o Without(Order, op'.key)
        /\ Size' = Size
        /\ Live' = Live
        /\ Contents' = Contents ]_vars

\* a hit on the key that was at the tail of a list of three, as after
\* put(1,1); put(2,2); put(3,3); get(1): keys 3 and 2 keep their order
GetHitWitness ==
  /\ op.kind = "get" /\ op.hit /\ op.key = 1 /\ capacity = 3
  /\ Order = <<1, 3, 2>> /\ alt1.cache = <<<<2, 2>>, <<3, 3>>, <<1, 1>>>>
  /\ ret = <<written[op.key]>> /\ ret # <<NotFound>>

\* C8 (construction error), as claimed: a cache with capacity <= 0 is never
\* constructed, so no get or put is ever applied to one.
ConstructionRejectsNonPositive ==
  op.kind \in {"get", "put"} => capacity >= 1

\* C9 (not-found is distinguished), as claimed: get never raises and yields
\* the not-found result if and only if the key is not in the dict.
NotFoundDistinguished ==
  op.kind = "get" => (~raised /\ (ret = <<NotFound>> <=> ~op.hit))

\* C10 (reference scenario): on LRUCache(2) the calls of the harness return
\* 1, not-found, not-found, 3, 4 from the five gets; put(3,3) evicts key 2
\* and leaves {1:1, 3:3} in recency order [3,1]; put(4,4) evicts key 1 and
\* leaves {3:3, 4:4}.
ReferenceScenario ==
  /\ pc = 3 => ret = <<1>>
  /\ pc = 4 => (evicted = {2} /\ Live = {1, 3} /\ Contents[1] = 1
                /\ Contents[3] = 3 /\ Order = <<3, 1>>)
  /\ pc = 5 => ret = <<NotFound>>
  /\ pc = 6 => (evicted = {1} /\ Live = {3, 4} /\ Contents[3] = 3
                /\ Contents[4] = 4)
  /\ pc = 7 => ret = <<NotFound>>
  /\ pc = 8 => ret = <<3>>
  /\ pc = 9 => ret = <<4>>

\* the harness has made its last call
ReferenceScenarioWitness ==
  pc = Len(Script) /\ capacity = ScriptCapacity /\ ret = <<4>> /\ Order = <<4, 3>>

\* C11 (at most one eviction per put), for a positive capacity: during a put
\* the dict never holds more than capacity + 1 keys, the put removes at most
\* one key from the dict, and it removes one only when it inserted a key
\* that was absent into a cache that held capacity keys.
OneEvictionPerPut ==
  [][ (op'.kind = "put" /\ capacity >= 1) =>
        /\ mid'.peak <= capacity + 1
        /\ Size' <= mid'.peak
        /\ Cardinality((Live \cup {op'.key}) \ Live') <= 1
        /\ (Live \cup {op'.key}) \ Live' = evicted'
        /\ (evicted' # {} => (~op'.hit /\ Size = capacity)) ]_vars

\* a put that went through capacity + 1 keys and removed one
OneEvictionPerPutWitness ==
  /\ op.kind = "put" /\ capacity = 2 /\ mid.peak = 3
  /\ Cardinality(evicted) = 1 /\ Size = 2

\* C14 (eviction never runs on an empty list): whenever put runs its overflow
\* branch, at least one node is linked between the dummies, the node it
\* unlinks is a node the dict maps a key to and not a dummy, the key it
\* deletes is in the dict, and nothing raises.
EvictionOnNonEmptyList ==
  (op.kind = "put" /\ mid.evicting) =>
     (mid.linked >= 1 /\ mid.lruLive /\ mid.keyKnown /\ ~raised /\ evicted # {})

\* the overflow branch ran on a list of capacity + 1 = 3 nodes
EvictionOnNonEmptyListWitness ==
  op.kind = "put" /\ mid.evicting /\ mid.linked = 3 /\ mid.lruLive /\ capacity = 2

Reverse(q) == [i \in 1..Len(q) |-> q[Len(q) + 1 - i]]

\* C12 (list well-formedness): between operations, following next from the
\* dummy head visits every node of the dict exactly once and ends at the
\* dummy tail; following prev from the dummy tail visits the same nodes in
\* the reverse order and ends at the dummy head; n.next.prev = n and
\* n.prev.next = n for every linked node; the dummies are never nodes of the
\* dict.
WellFormedList ==
  /\ SeqSet(Linked) = Range(dict)
  /\ Len(Linked) = Cardinality(Range(dict))
  /\ Len(Linked) = Cardinality(DOMAIN dict)
  /\ {head, tail} \cap (Range(dict) \cup SeqSet(Linked)) = {}
  /\ IF Linked = <<>> THEN heap[head].next = tail /\ heap[tail].prev = head
     ELSE /\ heap[Linked[Len(Linked)]].next = tail
          /\ heap[tail].prev = Linked[Len(Linked)]
          /\ heap[Linked[1]].prev = head
  /\ LinkedBack = Reverse(Linked)
  /\ \A n \in SeqSet(Linked) :
        /\ heap[n].next \in DOMAIN heap /\ heap[heap[n].next].prev = n
        /\ heap[n].prev \in DOMAIN heap /\ heap[heap[n].prev].next = n
  /\ heap[head].prev = None /\ heap[tail].next = None

\* two nodes are linked, right after a get moved the last one to the front
WellFormedListWitness ==
  /\ Len(Linked) = 2 /\ op.kind = "get" /\ op.hit
  /\ LinkedBack = Reverse(Linked) /\ Linked[1] = dict[op.key]
  /\ lastTouch[op.key] = 2

\* C13 (entry lifecycle), as claimed: a node is allocated only by a put on
\* a key that is not in the dict; get and put on a key of the dict work on
\* its node in place, so the node the dict maps a live key to keeps its
\* identity from the put that inserted the key until the key is evicted.
NodeIdentityKept ==
  [][ /\ \A k \in Live \cap Live' : dict'[k] = dict[k]
      /\ (op'.kind = "get" \/ op'.hit) => DOMAIN heap' \subseteq DOMAIN heap ]_vars

\* C15 (no partial failure): every get and every put completes without
\* raising, and when it returns the dict and the list are consistent with
\* each other and the list is well formed.
NoPartialFailure ==
  op.kind \in {"get", "put"} => (~raised /\ Consistency /\ WellFormedList)

\* a put that ran the overflow branch to its end has returned
NoPartialFailureWitness ==
  /\ op.kind = "put" /\ ~raised /\ mid.evicting /\ evicted # {}
  /\ Size = capacity /\ capacity = 1 /\ Len(Linked) = 1 /\ LinkedBack = Linked

\* C17 (read your write), for a positive capacity: a put never evicts the
\* key it was given, which is live with the value given when put returns,
\* and a get of that key issued right after the put returns that value.
ReadYourWrite ==
  [][ /\ (capacity >= 1 /\ op'.kind = "put") =>
           /\ op'.key \notin evicted'
           /\ op'.key \in Live'
           /\ Contents'[op'.key] = op'.args[1]
      /\ (capacity >= 1 /\ op.kind = "put" /\ op'.kind = "get" /\ op'.key = op.key) =>
           (op'.hit /\ ret' = <<op.args[1]>>) ]_vars

\* a get of the only key of a cache of capacity 1 returned the value put for
\* it, as after put(k, k); get(k)
ReadYourWriteWitness ==
  /\ op.kind = "get" /\ op.hit /\ capacity = 1 /\ Size = 1
  /\ ret = <<written[op.key]>> /\ ret = <<op.key>>

\* C18 (put frame): put(k, v) changes the value of no other key that is
\* live afterwards and keeps the relative order of those keys; the only
\* keys whose presence changes are k and at most one evicted key, the one
\* that was at the tail; for a positive capacity k is live afterwards.
PutFrame ==
  [][ op'.kind = "put" =>
        LET k == op'.key IN
        /\ \A j \in Live' \ {k} : j \in Live /\ Contents'[j] = Contents[j]
        /\ Without(Order', k) = SelectSeq(Without(Order, k), LAMBDA j : j \in Live')
        /\ (Live \ Live') \cup (Live' \ Live) \subseteq {k} \cup evicted'
        /\ Cardinality(Live \ Live') <= 1
        /\ \A j \in Live \ Live' : j # k /\ Order # <<>> /\ j = Order[Len(Order)]
        /\ capacity >= 1 => k \in Live' ]_vars

\* a put of a new key evicted the tail key of a full cache of capacity 3
\* and kept the two other keys in their order, as after put(1,1); put(2,2);
\* put(3,3); put(4,4)
PutFrameWitness ==
  /\ op.kind = "put" /\ ~op.hit /\ op.key = 4 /\ capacity = 3
  /\ Order = <<4, 3, 2>> /\ evicted = {1}
  /\ \A j \in {2, 3} : Contents[j] = written[j]

\* the entries of the linked list as <<key, value>>, oldest first
Entries == Reverse([i \in 1..Len(Linked) |-> <<heap[Linked[i]].key, heap[Linked[i]].val>>])

\* C16 (the three implementations agree), for capacity >= 1: after the
\* same calls the linked-list cache, the OrderedDict alternative and the
\* list alternative have returned the same result from the last call, none
\* has raised, and all three hold the same keys with the same values in the
\* same recency order.
AlternativesAgree ==
  capacity >= 1 =>
     /\ alt1.ret = ret /\ alt2.ret = ret
     /\ ~raised /\ ~alt2.raised
     /\ alt1.cache = Entries /\ alt2.cache = Entries
     /\ \A k \in Live : \E i \in 1..Len(alt1.cache) :
           alt1.cache[i] = <<k, Contents[k]>>

\* a get hit reordered three caches of two entries alike
AlternativesAgreeWitness ==
  /\ capacity = 2 /\ op.kind = "get" /\ op.hit /\ Len(Entries) = 2
  /\ alt1.cache = Entries /\ alt2.cache = Entries /\ alt2.ret = ret
  /\ Entries[2][1] = op.key /\ lastTouch[op.key] = 2

\* C19 (flattening order), under SpecIter: as long as the caller drives the
\* iterator as the loop "while hasNext(): next()" does (protocol), what next
\* has returned so far is a prefix of the integers of the nested list in
\* depth-first left-to-right order, which is what the brute-force
\* alternative's _flatten produces; a hasNext that returned True leaves the
\* next of those integers on top of the stack, and hasNext returns False
\* exactly when none remains, so the loop yields exactly that sequence.
FlattensInOrder ==
  LET flat == Flatten(nestedList) IN
  protocol =>
    /\ ~thrown
    /\ Len(output) <= Len(flat)
    /\ output = SubSeq(flat, 1, Len(output))
    /\ answer = <<TRUE>> =>
          /\ Len(output) < Len(flat)
          /\ stack # <<>>
          /\ stack[Len(stack)] = IntItem(flat[Len(output) + 1])
    /\ answer = <<FALSE>> => output = flat

\* the loop has run to its end on [[1, []], 2]
FlattensInOrderWitness ==
  /\ nestedList = <<ListItem(<<IntItem(1), ListItem(<<>>)>>), IntItem(2)>>
  /\ protocol /\ answer = <<FALSE>> /\ output = <<1, 2>> /\ stack = <<>>

\* C20 (hasNext terminates and can be repeated), under SpecIter: from every
\* state, reached by whatever calls, hasNext returns; when it returns True
\* the top of the stack is an integer, which a next called then returns
\* without raising; a hasNext called again with no next in between leaves
\* stack and answer as they are; no more NestedIntegers are pushed than the
\* input holds and none is popped that was not pushed, and when hasNext
\* returns False the stack is empty, with every NestedInteger of the input
\* pushed and popped if the caller kept to the loop.
HasNextSafe ==
  [][ /\ lastCall' = "hasNext" =>
           /\ halted'
           /\ ~thrown'
           /\ answer' = <<TRUE>> => (stack' # <<>> /\ stack'[Len(stack')].isInteger)
           /\ answer' = <<FALSE>> =>
                 /\ stack' = <<>>
                 /\ popped' = pushed'
                 /\ protocol' => pushed' = Nodes(nestedList)
           /\ lastCall = "hasNext" =>
                 (stack' = stack /\ answer' = answer /\ output' = output
                  /\ pushed' = pushed /\ popped' = popped)
           /\ LET again == HasNextLoop(stack', pushed', popped', Fuel(nestedList)) IN
                 /\ again.halted
                 /\ again.stack = stack' /\ <<again.ret>> = answer'
                 /\ again.pushed = pushed' /\ again.popped = popped'
      /\ (lastCall' = "next" /\ answer = <<TRUE>>) =>
           /\ ~thrown'
           /\ stack[Len(stack)].isInteger
           /\ output' = Append(output, stack[Len(stack)].getInteger)
           /\ stack' = SubSeq(stack, 1, Len(stack) - 1)
      /\ pushed' <= Nodes(nestedList)
      /\ popped' <= pushed' ]_vars

\* hasNext has popped two lists of [1, [[], 2]] on the way to the 2
HasNextSafeWitness ==
  /\ nestedList = <<IntItem(1), ListItem(<<ListItem(<<>>), IntItem(2)>>)>>
  /\ lastCall = "hasNext" /\ answer = <<TRUE>> /\ output = <<1>>
  /\ pushed = 4 /\ popped = 3 /\ stack = <<IntItem(2)>>

====
